---- MODULE Spec2Model ----
(***************************************************************************)
(* AtomicBitSet (src/src/atomic.rs): a four-level hierarchical bit set     *)
(* with lock-free insertion (add_atomic) and exclusive removal.            *)
(*                                                                         *)
(* Words are integers of W = 2^BITS bits.  The crate uses BITS = 6 (64-bit *)
(* usize); the model keeps the same shift schedule with a smaller BITS, so *)
(* that capacity W^4 stays explorable.                                     *)
(*                                                                         *)
(* Atomic accesses of add_atomic are one action each (an interleaving of   *)
(* the atomic operations; every location is written by read-modify-write   *)
(* operations only, and the pointer publish is an acquire/release pair).   *)
(* Operations taking &mut self (add, remove, clear) are one action each:   *)
(* the borrow checker guarantees no other call is in flight.               *)
(***************************************************************************)
EXTENDS Integers, FiniteSets, Sequences, TLC

\* ---------------------------------------------------------------- bounds
BITS == 1
NThreads == 2

\* ------------------------------------------- util.rs (index arithmetic)
W == 2 ^ BITS
SHIFT0 == 0
SHIFT1 == SHIFT0 + BITS
SHIFT2 == SHIFT1 + BITS
SHIFT3 == SHIFT2 + BITS

\* Number of mid summary words (layer2) and of group blocks (layer1).
NLayer2 == 2 ^ BITS
\* a block array twice as long as the layers above it address
NLayer1_Double == 2 ^ (2 * BITS + 1)
NLayer1 == 2 ^ (2 * BITS)
Capacity == 2 ^ (4 * BITS)

AllOnes == (2 ^ W) - 1

\* bit k of word x
Bit(x, k) == (x \div (2 ^ k)) % 2

RECURSIVE OrFrom(_, _, _)
OrFrom(a, b, k) ==
    IF k = W THEN 0
    ELSE (IF Bit(a, k) = 1 \/ Bit(b, k) = 1 THEN 2 ^ k ELSE 0) + OrFrom(a, b, k + 1)

RECURSIVE AndFrom(_, _, _)
AndFrom(a, b, k) ==
    IF k = W THEN 0
    ELSE (IF Bit(a, k) = 1 /\ Bit(b, k) = 1 THEN 2 ^ k ELSE 0) + AndFrom(a, b, k + 1)

\* a | b, a & b, !a on W-bit words
BitOr(a, b) == OrFrom(a, b, 0)
BitAnd(a, b) == AndFrom(a, b, 0)
BitNot(a) == AllOnes - a

\* usize::trailing_zeros (W for a zero word)
TrailingZeros(x) ==
    IF x = 0 THEN W
    ELSE CHOOSE k \in 0..(W - 1) : Bit(x, k) = 1 /\ \A j \in 0..(k - 1) : Bit(x, j) = 0

\* Row::row, Row::offset, Row::mask and offsets of util.rs
row(id, shift) == (id \div (2 ^ shift)) % W
offset(id, shift) == id \div (2 ^ shift)
mask(id, shift) == 2 ^ row(id, shift)
offsets(id) == <<offset(id, SHIFT1), offset(id, SHIFT2), offset(id, SHIFT3)>>

\* ------------------------------------------------------------ identifiers
\* Identifiers the operations are called with: two bits of one leaf word,
\* a second leaf word of the same group block, a second group block under
\* the same layer2 word, and the largest identifier (another layer2 word).
Ids == {0, 1, W, W * W, Capacity - 1}
\* one identifier beyond the capacity
BadId == Capacity
Args == Ids \cup {BadId}
\* identifiers that calls running concurrently insert: the same identifier,
\* two bits of one leaf word (one leaf array to allocate), another layer2
\* word, and an identifier out of range
AtomicArgs == {0, 1, Capacity - 1, BadId}

Threads == 1..NThreads
\* owner tag of arrays allocated by an exclusive (&mut self) call
Main == NThreads + 1

NULL == <<>>
\* [ZERO; 1 << BITS]
ZeroArray == [i \in 0..(W - 1) |-> 0]
EmptyHeap == [a \in {} |-> ZeroArray]

VARIABLES
    layer3,     \* AtomicBitSet.layer3
    layer2,     \* AtomicBitSet.layer2[p2]
    l1mask,     \* AtomicBitSet.layer1[p1].mask
    inner,      \* AtomicBitSet.layer1[p1].atom.inner: NULL or an array
    heap,       \* live leaf arrays: array -> its W words
    pc,         \* per thread: position inside add_atomic
    arg,        \* per thread: the id of the current add_atomic call
    new_ptr,    \* per thread: get_or_init's new_ptr
    ptr,        \* per thread: get_or_init's result
    set,        \* per thread: the value add_atomic returns
    was,        \* per thread: contains(id) when the call started (history)
    lost,       \* per thread: the call's compare_exchange failed (history)
    members,    \* the identifiers put in and not taken out since (history)
    res         \* the last exclusive call: op, id, ret, and what held before

vars == <<layer3, layer2, l1mask, inner, heap, pc, arg, new_ptr, ptr, set, was, lost,
          members, res>>
shared == <<layer3, layer2, l1mask, inner, heap>>
locals == <<pc, arg, new_ptr, ptr, set, was, lost>>

NoRes == [op |-> "none", id |-> 0, ret |-> FALSE, was |-> FALSE, iters |-> 0]

\* AtomicBitSet::default / AtomicBlock::new / OnceAtom::new
Init ==
    /\ layer3 = 0
    /\ layer2 = [i \in 0..(NLayer2 - 1) |-> 0]
    /\ l1mask = [i \in 0..(NLayer1 - 1) |-> 0]
    /\ inner = [i \in 0..(NLayer1 - 1) |-> NULL]
    /\ heap = EmptyHeap
    /\ pc = [t \in Threads |-> "idle"]
    /\ arg = [t \in Threads |-> 0]
    /\ new_ptr = [t \in Threads |-> NULL]
    /\ ptr = [t \in Threads |-> NULL]
    /\ set = [t \in Threads |-> FALSE]
    /\ was = [t \in Threads |-> FALSE]
    /\ lost = [t \in Threads |-> FALSE]
    /\ members = {}
    /\ res = NoRes

\* ------------------------------------------------------- read-only paths
\* OnceAtom::get followed by the closure of AtomicBlock::contains
BlockContains(p1, id) ==
    IF inner[p1] = NULL THEN FALSE
    ELSE BitAnd(heap[inner[p1]][row(id, SHIFT1)], mask(id, SHIFT0)) # 0

\* AtomicBitSet::contains
contains(id) == BlockContains(offset(id, SHIFT2), id)

\* BitSetLike accessors
Layer3 == layer3
Layer2(i) == layer2[i]
Layer1(i) == l1mask[i]
Layer0(i) ==
    LET o1 == i \div (2 ^ BITS)
        o0 == i % (2 ^ BITS)
    IN IF inner[o1] = NULL THEN 0 ELSE heap[inner[o1]][o0]

\* ------------------------------------------------------- heap primitives
\* Box::into_raw(Box::new([ZERO; 1 << BITS])): a fresh zeroed array.  The
\* array made for block p1 by owner o is named <<p1, o>>; an owner allocates
\* for a block at most once, because the cell is never unpublished.
Alloc(h, a) == [x \in (DOMAIN h) \cup {a} |-> IF x = a THEN ZeroArray ELSE h[x]]
\* drop(Box::from_raw(a))
Dealloc(h, a) == [x \in (DOMAIN h) \ {a} |-> h[x]]

\* let (_, p1, p2) = offsets(id)
P1(id) == offsets(id)[2]
P2(id) == offsets(id)[3]

\* the bounds check of the index expression self.layer1[p1]; layer1 holds
\* 1 << (2 * BITS) blocks
InRange(id) == P1(id) < NLayer1

\* a report that looks at the whole leaf word
WasSet_AnyBit(old, m) == old # 0

\* AtomicBlock::add's report: old & m != 0
WasSet(old, m) == BitAnd(old, m) # 0

InFlight(t) == pc[t] \in {"cas", "free", "leaf", "mask", "l2", "l3"}
Quiet == \A t \in Threads : ~InFlight(t)

\* --------------------------------------------- add_atomic, step by step
\* a call that marks layer3 before anything below it is written
AddAtomicCall_TopFirst(t, id) ==
    /\ ~InFlight(t)
    /\ res' = NoRes
    /\ arg' = [arg EXCEPT ![t] = id]
    /\ set' = [set EXCEPT ![t] = FALSE]
    /\ lost' = [lost EXCEPT ![t] = FALSE]
    /\ LET p1 == P1(id) IN
       IF ~InRange(id)
       THEN \* index out of bounds: panic, nothing written
            /\ pc' = [pc EXCEPT ![t] = "panicked"]
            /\ was' = [was EXCEPT ![t] = FALSE]
            /\ new_ptr' = [new_ptr EXCEPT ![t] = NULL]
            /\ ptr' = [ptr EXCEPT ![t] = NULL]
            /\ UNCHANGED <<shared, members>>
       ELSE /\ was' = [was EXCEPT ![t] = contains(id)]
            /\ members' = members \cup {id}
            /\ IF inner[p1] = NULL
               THEN /\ heap' = Alloc(heap, <<p1, t>>)
                    /\ new_ptr' = [new_ptr EXCEPT ![t] = <<p1, t>>]
                    /\ ptr' = [ptr EXCEPT ![t] = NULL]
                    /\ pc' = [pc EXCEPT ![t] = "cas"]
               ELSE /\ heap' = heap
                    /\ new_ptr' = [new_ptr EXCEPT ![t] = NULL]
                    /\ ptr' = [ptr EXCEPT ![t] = inner[p1]]
                    /\ pc' = [pc EXCEPT ![t] = "leaf"]
            /\ layer3' = BitOr(layer3, mask(id, SHIFT3))
            /\ UNCHANGED <<layer2, l1mask, inner>>

\* add_atomic entry: offsets(id), the bounds check of self.layer1[p1], then
\* get_or_init's load of the cell and, when it is null, the allocation.
AddAtomicCall(t, id) ==
    /\ ~InFlight(t)
    /\ res' = NoRes
    /\ arg' = [arg EXCEPT ![t] = id]
    /\ set' = [set EXCEPT ![t] = FALSE]
    /\ lost' = [lost EXCEPT ![t] = FALSE]
    /\ LET p1 == P1(id) IN
       IF ~InRange(id)
       THEN \* index out of bounds: panic, nothing written
            /\ pc' = [pc EXCEPT ![t] = "panicked"]
            /\ was' = [was EXCEPT ![t] = FALSE]
            /\ new_ptr' = [new_ptr EXCEPT ![t] = NULL]
            /\ ptr' = [ptr EXCEPT ![t] = NULL]
            /\ UNCHANGED <<shared, members>>
       ELSE /\ was' = [was EXCEPT ![t] = contains(id)]
            /\ members' = members \cup {id}
            /\ IF inner[p1] = NULL
               THEN /\ heap' = Alloc(heap, <<p1, t>>)
                    /\ new_ptr' = [new_ptr EXCEPT ![t] = <<p1, t>>]
                    /\ ptr' = [ptr EXCEPT ![t] = NULL]
                    /\ pc' = [pc EXCEPT ![t] = "cas"]
               ELSE /\ heap' = heap
                    /\ new_ptr' = [new_ptr EXCEPT ![t] = NULL]
                    /\ ptr' = [ptr EXCEPT ![t] = inner[p1]]
                    /\ pc' = [pc EXCEPT ![t] = "leaf"]
            /\ UNCHANGED <<layer3, layer2, l1mask, inner>>

\* a publish by plain store, whatever the cell holds
CompareExchange_Store(t) ==
    /\ pc[t] = "cas"
    /\ inner' = [inner EXCEPT ![P1(arg[t])] = new_ptr[t]]
    /\ ptr' = [ptr EXCEPT ![t] = new_ptr[t]]
    /\ new_ptr' = [new_ptr EXCEPT ![t] = NULL]
    /\ pc' = [pc EXCEPT ![t] = "leaf"]
    /\ UNCHANGED <<layer3, layer2, l1mask, heap, arg, set, was, lost, members, res>>

\* a publish that is attempted again for as long as it fails
CompareExchange_Retry(t) ==
    /\ pc[t] = "cas"
    /\ LET p1 == P1(arg[t]) IN
       IF inner[p1] = NULL
       THEN /\ inner' = [inner EXCEPT ![p1] = new_ptr[t]]
            /\ ptr' = [ptr EXCEPT ![t] = new_ptr[t]]
            /\ new_ptr' = [new_ptr EXCEPT ![t] = NULL]
            /\ lost' = lost
            /\ pc' = [pc EXCEPT ![t] = "leaf"]
       ELSE /\ lost' = [lost EXCEPT ![t] = TRUE]
            /\ UNCHANGED <<inner, ptr, new_ptr, pc>>
    /\ UNCHANGED <<layer3, layer2, l1mask, heap, arg, set, was, members, res>>

\* get_or_init: compare_exchange(null, new_ptr)
CompareExchange(t) ==
    /\ pc[t] = "cas"
    /\ LET p1 == P1(arg[t]) IN
       IF inner[p1] = NULL
       THEN /\ inner' = [inner EXCEPT ![p1] = new_ptr[t]]
            /\ ptr' = [ptr EXCEPT ![t] = new_ptr[t]]
            /\ new_ptr' = [new_ptr EXCEPT ![t] = NULL]
            /\ lost' = lost
            /\ pc' = [pc EXCEPT ![t] = "leaf"]
       ELSE /\ inner' = inner
            /\ ptr' = [ptr EXCEPT ![t] = inner[p1]]
            /\ new_ptr' = new_ptr
            /\ lost' = [lost EXCEPT ![t] = TRUE]
            /\ pc' = [pc EXCEPT ![t] = "free"]
    /\ UNCHANGED <<layer3, layer2, l1mask, heap, arg, set, was, members, res>>

\* a loser that keeps its allocation
FreeLoser_Leak(t) ==
    /\ pc[t] = "free"
    /\ new_ptr' = [new_ptr EXCEPT ![t] = NULL]
    /\ pc' = [pc EXCEPT ![t] = "leaf"]
    /\ UNCHANGED <<layer3, layer2, l1mask, inner, heap, arg, ptr, set, was, lost, members, res>>

\* get_or_init: the loser drops its own allocation
FreeLoser(t) ==
    /\ pc[t] = "free"
    /\ heap' = Dealloc(heap, new_ptr[t])
    /\ new_ptr' = [new_ptr EXCEPT ![t] = NULL]
    /\ pc' = [pc EXCEPT ![t] = "leaf"]
    /\ UNCHANGED <<layer3, layer2, l1mask, inner, arg, ptr, set, was, lost, members, res>>

\* a report taken from a load made before the fetch_or
LeafFetchOr_Stale(t) ==
    /\ pc[t] = "leaf"
    /\ LET i == row(arg[t], SHIFT1)
           m == mask(arg[t], SHIFT0)
       IN /\ heap' = [heap EXCEPT ![ptr[t]][i] = BitOr(@, m)]
          /\ set' = [set EXCEPT ![t] = was[t]]
    /\ pc' = [pc EXCEPT ![t] = "mask"]
    /\ UNCHANGED <<layer3, layer2, l1mask, inner, arg, new_ptr, ptr, was, lost, members, res>>

\* a leaf write by store of the mask in place of the fetch_or
LeafFetchOr_Store(t) ==
    /\ pc[t] = "leaf"
    /\ LET i == row(arg[t], SHIFT1)
           m == mask(arg[t], SHIFT0)
           old == heap[ptr[t]][i]
       IN /\ heap' = [heap EXCEPT ![ptr[t]][i] = m]
          /\ set' = [set EXCEPT ![t] = WasSet(old, m)]
    /\ pc' = [pc EXCEPT ![t] = "mask"]
    /\ UNCHANGED <<layer3, layer2, l1mask, inner, arg, new_ptr, ptr, was, lost, members, res>>

\* AtomicBlock::add: layer0[i].fetch_or(m)
LeafFetchOr(t) ==
    /\ pc[t] = "leaf"
    /\ LET i == row(arg[t], SHIFT1)
           m == mask(arg[t], SHIFT0)
           old == heap[ptr[t]][i]
       IN /\ heap' = [heap EXCEPT ![ptr[t]][i] = BitOr(old, m)]
          /\ set' = [set EXCEPT ![t] = WasSet(old, m)]
    /\ pc' = [pc EXCEPT ![t] = "mask"]
    /\ UNCHANGED <<layer3, layer2, l1mask, inner, arg, new_ptr, ptr, was, lost, members, res>>

\* the early exit add_atomic's comment warns against: return as soon as the
\* leaf bit is found set
MaskFetchOr_EarlyExit(t) ==
    /\ pc[t] = "mask"
    /\ l1mask' = [l1mask EXCEPT ![P1(arg[t])] = BitOr(@, mask(arg[t], SHIFT1))]
    /\ ptr' = [ptr EXCEPT ![t] = NULL]
    /\ pc' = [pc EXCEPT ![t] = IF set[t] THEN "done" ELSE "l2"]
    /\ UNCHANGED <<layer3, layer2, inner, heap, arg, new_ptr, set, was, lost, members, res>>

\* AtomicBlock::add: self.mask.fetch_or(id.mask(SHIFT1))
MaskFetchOr(t) ==
    /\ pc[t] = "mask"
    /\ LET p1 == P1(arg[t]) IN
       l1mask' = [l1mask EXCEPT ![p1] = BitOr(@, mask(arg[t], SHIFT1))]
    /\ ptr' = [ptr EXCEPT ![t] = NULL]
    /\ pc' = [pc EXCEPT ![t] = "l2"]
    /\ UNCHANGED <<layer3, layer2, inner, heap, arg, new_ptr, set, was, lost, members, res>>

\* a store of the mask in place of the fetch_or
Layer2FetchOr_Store(t) ==
    /\ pc[t] = "l2"
    /\ layer2' = [layer2 EXCEPT ![P2(arg[t])] = mask(arg[t], SHIFT2)]
    /\ pc' = [pc EXCEPT ![t] = "l3"]
    /\ UNCHANGED <<layer3, l1mask, inner, heap, arg, new_ptr, ptr, set, was, lost, members, res>>

\* add_atomic: self.layer2[p2].fetch_or(id.mask(SHIFT2))
Layer2FetchOr(t) ==
    /\ pc[t] = "l2"
    /\ LET p2 == P2(arg[t]) IN
       layer2' = [layer2 EXCEPT ![p2] = BitOr(@, mask(arg[t], SHIFT2))]
    /\ pc' = [pc EXCEPT ![t] = "l3"]
    /\ UNCHANGED <<layer3, l1mask, inner, heap, arg, new_ptr, ptr, set, was, lost, members, res>>

\* a return that leaves layer3 as it is
Layer3FetchOr_Skip(t) ==
    /\ pc[t] = "l3"
    /\ pc' = [pc EXCEPT ![t] = "done"]
    /\ UNCHANGED <<layer3, layer2, l1mask, inner, heap, arg, new_ptr, ptr, set, was, lost,
                   members, res>>

\* add_atomic: self.layer3.fetch_or(id.mask(SHIFT3)), then return set
Layer3FetchOr(t) ==
    /\ pc[t] = "l3"
    /\ layer3' = BitOr(layer3, mask(arg[t], SHIFT3))
    /\ pc' = [pc EXCEPT ![t] = "done"]
    /\ UNCHANGED <<layer2, l1mask, inner, heap, arg, new_ptr, ptr, set, was, lost, members, res>>

\* the steps a running add_atomic call takes on its own
Step(t) ==
    \/ CompareExchange(t)
    \/ FreeLoser(t)
    \/ LeafFetchOr(t)
    \/ MaskFetchOr(t)
    \/ Layer2FetchOr(t)
    \/ Layer3FetchOr(t)

\* ------------------------------------- exclusive (&mut self) operations
\* Taking &mut self ends every shared borrow: the threads have returned.
Joined ==
    /\ pc' = [t \in Threads |-> "idle"]
    /\ arg' = [t \in Threads |-> 0]
    /\ new_ptr' = [t \in Threads |-> NULL]
    /\ ptr' = [t \in Threads |-> NULL]
    /\ set' = [t \in Threads |-> FALSE]
    /\ was' = [t \in Threads |-> FALSE]
    /\ lost' = [t \in Threads |-> FALSE]

\* a call that panics on the bounds check of self.layer1[p1]
Panics(op, id) ==
    /\ res' = [op |-> op, id |-> id, ret |-> FALSE, was |-> FALSE, iters |-> 0]
    /\ UNCHANGED <<shared, members>>

\* the array get_or_init returns when nobody races: the published one, or a
\* new one that the compare_exchange publishes
GetOrInitPtr(p1) == IF inner[p1] = NULL THEN <<p1, Main>> ELSE inner[p1]
GetOrInitHeap(p1) == IF inner[p1] = NULL THEN Alloc(heap, <<p1, Main>>) ELSE heap

\* an add that leaves layer2 and layer3 alone whenever layer3 has any bit
AddPost_SkipNonEmpty(id) ==
    LET p1 == P1(id)
        p2 == P2(id)
        a == GetOrInitPtr(p1)
        h == GetOrInitHeap(p1)
        i == row(id, SHIFT1)
        m == mask(id, SHIFT0)
        old == h[a][i]
    IN [inner |-> [inner EXCEPT ![p1] = a],
        heap |-> [h EXCEPT ![a][i] = BitOr(old, m)],
        l1mask |-> [l1mask EXCEPT ![p1] = BitOr(@, mask(id, SHIFT1))],
        layer2 |-> IF layer3 # 0 THEN layer2
                   ELSE [layer2 EXCEPT ![p2] = BitOr(@, mask(id, SHIFT2))],
        layer3 |-> IF layer3 # 0 THEN layer3 ELSE BitOr(layer3, mask(id, SHIFT3)),
        ret |-> WasSet(old, m)]

\* AtomicBitSet::add on an identifier in range: the state it leaves and the
\* value it returns.  layer2 and layer3 are written only when the leaf bit
\* was not set.
AddPost(id) ==
    LET p1 == P1(id)
        p2 == P2(id)
        a == GetOrInitPtr(p1)
        h == GetOrInitHeap(p1)
        i == row(id, SHIFT1)
        m == mask(id, SHIFT0)
        old == h[a][i]
        wasSet == WasSet(old, m)
    IN [inner |-> [inner EXCEPT ![p1] = a],
        heap |-> [h EXCEPT ![a][i] = BitOr(old, m)],
        l1mask |-> [l1mask EXCEPT ![p1] = BitOr(@, mask(id, SHIFT1))],
        layer2 |-> IF wasSet THEN layer2
                   ELSE [layer2 EXCEPT ![p2] = BitOr(@, mask(id, SHIFT2))],
        layer3 |-> IF wasSet THEN layer3 ELSE BitOr(layer3, mask(id, SHIFT3)),
        ret |-> wasSet]

\* AtomicBitSet::add_atomic on an identifier in range, run from call to
\* return with no other call in flight: get_or_init (the compare_exchange
\* cannot fail), the leaf and mask fetch_or of AtomicBlock::add, then the
\* layer2 and layer3 fetch_or, whatever the leaf bit was
AddAtomicPost(id) ==
    LET p1 == P1(id)
        p2 == P2(id)
        a == GetOrInitPtr(p1)
        h == GetOrInitHeap(p1)
        i == row(id, SHIFT1)
        m == mask(id, SHIFT0)
        old == h[a][i]
    IN [inner |-> [inner EXCEPT ![p1] = a],
        heap |-> [h EXCEPT ![a][i] = BitOr(old, m)],
        l1mask |-> [l1mask EXCEPT ![p1] = BitOr(@, mask(id, SHIFT1))],
        layer2 |-> [layer2 EXCEPT ![p2] = BitOr(@, mask(id, SHIFT2))],
        layer3 |-> BitOr(layer3, mask(id, SHIFT3)),
        ret |-> WasSet(old, m)]

\* the call writes the state r and reports r.ret
Writes(op, id, r) ==
    /\ inner' = r.inner
    /\ heap' = r.heap
    /\ l1mask' = r.l1mask
    /\ layer2' = r.layer2
    /\ layer3' = r.layer3
    /\ members' = members \cup {id}
    /\ res' = [op |-> op, id |-> id, ret |-> r.ret, was |-> contains(id), iters |-> 0]

\* AtomicBitSet::add
Add(id) ==
    /\ Quiet
    /\ Joined
    /\ IF ~InRange(id) THEN Panics("add_panic", id)
       ELSE Writes("add", id, AddPost(id))

\* AtomicBitSet::add_atomic as one step of a caller that nobody races
AddAtomicAlone(id) ==
    /\ Quiet
    /\ Joined
    /\ IF ~InRange(id) THEN Panics("add_atomic_panic", id)
       ELSE Writes("add_atomic", id, AddAtomicPost(id))

\* a report that is true whenever the leaf word had any bit
BlockRemove_WasAny(p1, id) ==
    IF inner[p1] = NULL THEN <<FALSE, 0, l1mask[p1]>>
    ELSE LET i == row(id, SHIFT1)
             v == heap[inner[p1]][i]
             v2 == BitAnd(v, BitNot(mask(id, SHIFT0)))
         IN <<v # 0, v2,
              IF v2 = 0 THEN BitAnd(l1mask[p1], BitNot(mask(id, SHIFT1))) ELSE l1mask[p1]>>

\* AtomicBlock::remove, as the words it leaves: <<was_set, leaf word, mask>>
BlockRemove(p1, id) ==
    IF inner[p1] = NULL THEN <<FALSE, 0, l1mask[p1]>>
    ELSE LET i == row(id, SHIFT1)
             v == heap[inner[p1]][i]
             was_set == BitAnd(v, mask(id, SHIFT0)) = mask(id, SHIFT0)
             v2 == BitAnd(v, BitNot(mask(id, SHIFT0)))
         IN <<was_set, v2,
              IF v2 = 0 THEN BitAnd(l1mask[p1], BitNot(mask(id, SHIFT1))) ELSE l1mask[p1]>>

\* a remove that clears the layer2 bit whatever is left in the layer1 mask
Remove_ClearsUp(id) ==
    /\ Quiet
    /\ Joined
    /\ LET p1 == P1(id)
           p2 == P2(id)
       IN IF ~InRange(id) THEN Panics("remove_panic", id)
          ELSE LET r == BlockRemove(p1, id)
                   v2 == BitAnd(layer2[p2], BitNot(mask(id, SHIFT2)))
                   v3 == BitAnd(layer3, BitNot(mask(id, SHIFT3)))
               IN /\ heap' = IF inner[p1] = NULL THEN heap
                             ELSE [heap EXCEPT ![inner[p1]][row(id, SHIFT1)] = r[2]]
                  /\ l1mask' = [l1mask EXCEPT ![p1] = r[3]]
                  /\ IF ~r[1] THEN UNCHANGED <<layer2, layer3>>
                     ELSE /\ layer2' = [layer2 EXCEPT ![p2] = v2]
                          /\ IF v2 # 0 THEN layer3' = layer3 ELSE layer3' = v3
                  /\ UNCHANGED inner
                  /\ members' = members \ {id}
                  /\ res' = [op |-> "remove", id |-> id, ret |-> r[1],
                             was |-> contains(id), iters |-> 0]

\* AtomicBitSet::remove
Remove(id) ==
    /\ Quiet
    /\ Joined
    /\ LET p1 == P1(id)
           p2 == P2(id)
       IN IF ~InRange(id) THEN Panics("remove_panic", id)
          ELSE LET r == BlockRemove(p1, id)
                   v2 == BitAnd(layer2[p2], BitNot(mask(id, SHIFT2)))
                   v3 == BitAnd(layer3, BitNot(mask(id, SHIFT3)))
               IN /\ heap' = IF inner[p1] = NULL THEN heap
                             ELSE [heap EXCEPT ![inner[p1]][row(id, SHIFT1)] = r[2]]
                  /\ l1mask' = [l1mask EXCEPT ![p1] = r[3]]
                  /\ IF ~r[1] THEN UNCHANGED <<layer2, layer3>>
                     ELSE IF r[3] # 0 THEN UNCHANGED <<layer2, layer3>>
                     ELSE /\ layer2' = [layer2 EXCEPT ![p2] = v2]
                          /\ IF v2 # 0 THEN layer3' = layer3 ELSE layer3' = v3
                  /\ UNCHANGED inner
                  /\ members' = members \ {id}
                  /\ res' = [op |-> "remove", id |-> id, ret |-> r[1],
                             was |-> contains(id), iters |-> 0]

\* a clear that zeroes the mask and leaves the leaf words
BlockClear_MaskOnly(st, p) ==
    [st EXCEPT !.l1mask[p] = 0, !.cleared = Append(@, p)]

\* AtomicBlock::clear on block p of state st
BlockClear(st, p) ==
    [st EXCEPT !.l1mask[p] = 0,
               !.heap = IF inner[p] = NULL THEN @
                        ELSE [@ EXCEPT ![inner[p]] = ZeroArray],
               !.cleared = Append(@, p)]

\* the loop of AtomicBitSet::clear, from the locals m3, m2, offset
RECURSIVE ClearLoop(_, _, _, _)
ClearLoop(st, m3, m2, off) ==
    IF m2 # 0
    THEN LET bit == TrailingZeros(m2)
         IN ClearLoop([BlockClear(st, off + bit) EXCEPT !.iters = @ + 1],
                      m3, BitAnd(m2, BitNot(2 ^ bit)), off)
    ELSE IF m3 # 0
    THEN LET bit == TrailingZeros(m3)
         IN ClearLoop([st EXCEPT !.layer2[bit] = 0, !.iters = @ + 1,
                                 !.swapped = Append(@, bit)],
                      BitAnd(m3, BitNot(2 ^ bit)), st.layer2[bit], bit * (2 ^ BITS))
    ELSE [st EXCEPT !.iters = @ + 1]

\* a clear that walks every layer2 word, whatever layer3 holds
ClearResult_AllWords ==
    ClearLoop([layer2 |-> layer2, l1mask |-> l1mask, heap |-> heap, iters |-> 0,
               cleared |-> <<>>, swapped |-> <<>>], AllOnes, 0, 0)

\* AtomicBitSet::clear: layer3.swap(0), then the loop
ClearResult ==
    ClearLoop([layer2 |-> layer2, l1mask |-> l1mask, heap |-> heap, iters |-> 0,
               cleared |-> <<>>, swapped |-> <<>>], layer3, 0, 0)

\* a clear that gives the leaf arrays back and empties the cells
Clear_Unpublish ==
    /\ Quiet
    /\ Joined
    /\ LET r == ClearResult
       IN /\ layer3' = 0
          /\ layer2' = r.layer2
          /\ l1mask' = r.l1mask
          /\ heap' = EmptyHeap
          /\ members' = {}
          /\ res' = [op |-> "clear", id |-> 0, ret |-> FALSE, was |-> FALSE,
                     iters |-> r.iters]
    /\ inner' = [p \in 0..(NLayer1 - 1) |-> NULL]

Clear ==
    /\ Quiet
    /\ Joined
    /\ LET r == ClearResult
       IN /\ layer3' = 0
          /\ layer2' = r.layer2
          /\ l1mask' = r.l1mask
          /\ heap' = r.heap
          /\ members' = {}
          /\ res' = [op |-> "clear", id |-> 0, ret |-> FALSE, was |-> FALSE,
                     iters |-> r.iters]
    /\ UNCHANGED inner

\* ------------------------------------------- shared (&self) read calls
\* A read call takes &self: it runs while add_atomic calls are in flight and
\* writes nothing.  Its result is kept in res; word is the usize returned.
ReadRes(op, i, b, w) ==
    [op |-> op, id |-> i, ret |-> b, was |-> FALSE, iters |-> 0, word |-> w]

\* AtomicBitSet::contains; the index expression self.layer1[i] panics on an
\* identifier beyond the capacity
ContainsCall(id) ==
    /\ res' = IF ~InRange(id) THEN ReadRes("contains_panic", id, FALSE, 0)
              ELSE ReadRes("contains", id, contains(id), 0)
    /\ UNCHANGED <<shared, locals, members>>

\* BitSetLike::layer3
Layer3Call ==
    /\ res' = ReadRes("layer3", 0, FALSE, Layer3)
    /\ UNCHANGED <<shared, locals, members>>

\* BitSetLike::layer2
Layer2Call(i) ==
    /\ res' = ReadRes("layer2", i, FALSE, Layer2(i))
    /\ UNCHANGED <<shared, locals, members>>

\* BitSetLike::layer1
Layer1Call(i) ==
    /\ res' = ReadRes("layer1", i, FALSE, Layer1(i))
    /\ UNCHANGED <<shared, locals, members>>

\* a layer0 that reaches the leaf array through get_or_init
Layer0Call_GetOrInit(i) ==
    /\ LET o1 == i \div (2 ^ BITS)
           o0 == i % (2 ^ BITS)
       IN /\ inner' = [inner EXCEPT ![o1] = GetOrInitPtr(o1)]
          /\ heap' = GetOrInitHeap(o1)
          /\ res' = ReadRes("layer0", i, FALSE, GetOrInitHeap(o1)[GetOrInitPtr(o1)][o0])
    /\ UNCHANGED <<layer3, layer2, l1mask, locals, members>>

\* BitSetLike::layer0
Layer0Call(i) ==
    /\ res' = ReadRes("layer0", i, FALSE, Layer0(i))
    /\ UNCHANGED <<shared, locals, members>>

\* ---------------------------------------------------------- formatting
\* Debug for AtomicBlock: the field "atom" is self.atom.get().unwrap().iter(),
\* and unwrap panics on the None that get returns for a cell never published
BlockDebugPanics(p) == inner[p] = NULL

\* the derived Debug of AtomicBitSet formats layer3, the layer2 words and
\* then the group blocks in order: it stops at the first block that panics
FirstPanic ==
    LET bad == {p \in 0..(NLayer1 - 1) : BlockDebugPanics(p)}
    IN IF bad = {} THEN NLayer1
       ELSE CHOOSE p \in bad : \A q \in bad : p <= q

\* format!("{:?}", set): a read call; id is the block whose fmt panicked
DebugCall ==
    /\ res' = IF FirstPanic < NLayer1
              THEN ReadRes("debug_panic", FirstPanic, FALSE, 0)
              ELSE ReadRes("debug", 0, FALSE, 0)
    /\ UNCHANGED <<shared, locals, members>>

\* ------------------------------------------------------- destruction
\* Drop for OnceAtom, cell after cell from block p on: a non-null pointer is
\* given to Box::from_raw and freed.  frees counts the arrays freed; bad
\* collects the pointers freed that were not allocated (a second free).
RECURSIVE DropFrom(_, _)
DropFrom(st, p) ==
    IF p = NLayer1 THEN st
    ELSE IF inner[p] = NULL THEN DropFrom(st, p + 1)
    ELSE IF inner[p] \in DOMAIN st.heap
    THEN DropFrom([st EXCEPT !.heap = Dealloc(@, inner[p]), !.frees = @ + 1], p + 1)
    ELSE DropFrom([st EXCEPT !.bad = @ \cup {inner[p]}], p + 1)

\* the set has not been dropped
Alive == res.op # "drop"

\* dropping the AtomicBitSet: it is owned, so no call is running; every
\* OnceAtom is dropped and nothing can be called afterwards
Drop ==
    /\ Alive
    /\ Quiet
    /\ LET r == DropFrom([heap |-> heap, frees |-> 0, bad |-> {}], 0)
       IN /\ heap' = r.heap
          /\ res' = [op |-> "drop", id |-> 0, ret |-> FALSE, was |-> FALSE,
                     iters |-> r.frees, bad |-> r.bad]
    /\ UNCHANGED <<layer3, layer2, l1mask, inner, locals, members>>

\* --------------------------------- remove, statement by statement
\* The statements of AtomicBitSet::remove and AtomicBlock::remove taken one
\* at a time by a thread, as they would run if remove took &self and its
\* caller were not alone.  Each statement is one step; set[t] is was_set.
Removing(t) == pc[t] \in {"r_leaf", "r_mask", "r_chk", "r_l2", "r_l3"}

\* remove entry: offsets(id) and the bounds check of self.layer1[p1]
RemoveCall(t, id) ==
    /\ res' = NoRes
    /\ arg' = [arg EXCEPT ![t] = id]
    /\ set' = [set EXCEPT ![t] = FALSE]
    /\ was' = [was EXCEPT ![t] = IF InRange(id) THEN contains(id) ELSE FALSE]
    /\ pc' = [pc EXCEPT ![t] = IF InRange(id) THEN "r_leaf" ELSE "panicked"]
    /\ UNCHANGED <<shared, new_ptr, ptr, lost, members>>

\* a block remove that clears the layer1 bit whatever is left in the leaf word
RemoveLeaf_AlwaysMask(t) ==
    /\ pc[t] = "r_leaf"
    /\ LET p1 == P1(arg[t])
           i == row(arg[t], SHIFT1)
           m == mask(arg[t], SHIFT0)
       IN IF inner[p1] = NULL
          THEN /\ pc' = [pc EXCEPT ![t] = "r_done"]
               /\ UNCHANGED <<heap, set, members>>
          ELSE LET v == heap[inner[p1]][i]
                   v2 == BitAnd(v, BitNot(m))
               IN /\ set' = [set EXCEPT ![t] = BitAnd(v, m) = m]
                  /\ heap' = [heap EXCEPT ![inner[p1]][i] = v2]
                  /\ members' = members \ {arg[t]}
                  /\ pc' = [pc EXCEPT ![t] = "r_mask"]
    /\ UNCHANGED <<layer3, layer2, l1mask, inner, arg, new_ptr, ptr, was, lost, res>>

\* AtomicBlock::remove: get_mut, was_set, *v = *v & m, and the test *v == 0
RemoveLeaf(t) ==
    /\ pc[t] = "r_leaf"
    /\ LET p1 == P1(arg[t])
           i == row(arg[t], SHIFT1)
           m == mask(arg[t], SHIFT0)
       IN IF inner[p1] = NULL
          THEN /\ pc' = [pc EXCEPT ![t] = "r_done"]
               /\ UNCHANGED <<heap, set, members>>
          ELSE LET v == heap[inner[p1]][i]
                   v2 == BitAnd(v, BitNot(m))
               IN /\ set' = [set EXCEPT ![t] = BitAnd(v, m) = m]
                  /\ heap' = [heap EXCEPT ![inner[p1]][i] = v2]
                  /\ members' = members \ {arg[t]}
                  /\ pc' = [pc EXCEPT ![t] = IF v2 = 0 THEN "r_mask" ELSE "r_chk"]
    /\ UNCHANGED <<layer3, layer2, l1mask, inner, arg, new_ptr, ptr, was, lost, res>>

\* AtomicBlock::remove: *self.mask.get_mut() &= !id.mask(SHIFT1)
RemoveMask(t) ==
    /\ pc[t] = "r_mask"
    /\ l1mask' = [l1mask EXCEPT ![P1(arg[t])] = BitAnd(@, BitNot(mask(arg[t], SHIFT1)))]
    /\ pc' = [pc EXCEPT ![t] = "r_chk"]
    /\ UNCHANGED <<layer3, layer2, inner, heap, arg, new_ptr, ptr, set, was, lost, members, res>>

\* AtomicBitSet::remove: return false unless was_set; return true when the
\* layer1 mask, loaded now, is not zero
RemoveCheck(t) ==
    /\ pc[t] = "r_chk"
    /\ pc' = [pc EXCEPT ![t] = IF ~set[t] \/ l1mask[P1(arg[t])] # 0
                               THEN "r_done" ELSE "r_l2"]
    /\ UNCHANGED <<shared, arg, new_ptr, ptr, set, was, lost, members, res>>

\* AtomicBitSet::remove: v = layer2[p2].load() & !mask; layer2[p2].store(v)
RemoveLayer2(t) ==
    /\ pc[t] = "r_l2"
    /\ LET p2 == P2(arg[t])
           v == BitAnd(layer2[p2], BitNot(mask(arg[t], SHIFT2)))
       IN /\ layer2' = [layer2 EXCEPT ![p2] = v]
          /\ pc' = [pc EXCEPT ![t] = IF v # 0 THEN "r_done" ELSE "r_l3"]
    /\ UNCHANGED <<layer3, l1mask, inner, heap, arg, new_ptr, ptr, set, was, lost, members, res>>

\* AtomicBitSet::remove: v = layer3.load() & !mask; layer3.store(v)
RemoveLayer3(t) ==
    /\ pc[t] = "r_l3"
    /\ layer3' = BitAnd(layer3, BitNot(mask(arg[t], SHIFT3)))
    /\ pc' = [pc EXCEPT ![t] = "r_done"]
    /\ UNCHANGED <<layer2, l1mask, inner, heap, arg, new_ptr, ptr, set, was, lost, members, res>>

RemoveStep(t) ==
    \/ RemoveLeaf(t)
    \/ RemoveMask(t)
    \/ RemoveCheck(t)
    \/ RemoveLayer2(t)
    \/ RemoveLayer3(t)

\* ------------------------------------------------------- specifications
Next ==
    \/ \E t \in Threads, id \in AtomicArgs : AddAtomicCall(t, id)
    \/ \E t \in Threads : Step(t)
    \/ \E id \in Args : Add(id)
    \/ \E id \in Args : Remove(id)
    \/ Clear

Spec == Init /\ [][Next]_vars

\* the calls run one at a time
SeqNext ==
    \/ \E id \in Args : AddAtomicAlone(id)
    \/ \E id \in Args : Add(id)
    \/ \E id \in Args : Remove(id)
    \/ Clear

SeqSpec == Init /\ [][SeqNext]_vars

\* Progress of add_atomic.  The calls, and the exclusive operations that take
\* identifiers out again, are those of Spec; thread 1 is scheduled for as
\* long as its call is running, and nothing is assumed of the other threads.
LiveNext ==
    \/ \E t \in Threads, id \in AtomicArgs : AddAtomicCall(t, id)
    \/ \E t \in Threads : Step(t)
    \/ \E id \in AtomicArgs : Remove(id)
    \/ Clear

LiveSpec == Init /\ [][LiveNext]_vars /\ WF_vars(Step(1))

\* The read calls next to the calls that change the set: add_atomic calls of
\* the threads, step by step, and the exclusive add, remove and clear.
ReadArgs == {0, W, BadId}
ReadNext ==
    \/ \E t \in Threads, id \in ReadArgs : AddAtomicCall(t, id)
    \/ \E t \in Threads : Step(t)
    \/ \E id \in ReadArgs : Add(id)
    \/ \E id \in ReadArgs : Remove(id)
    \/ Clear
    \/ \E id \in ReadArgs \cup {1} : ContainsCall(id)
    \/ Layer3Call
    \/ \E i \in 0..(NLayer2 - 1) : Layer2Call(i)
    \/ \E i \in 0..(NLayer1 - 1) : Layer1Call(i)
    \/ \E i \in 0..(NLayer1 * W - 1) : Layer0Call(i)

ReadSpec == Init /\ [][ReadNext]_vars

\* The life of a set that threads insert into, from construction to drop.
DropNext ==
    \/ Alive /\ \E t \in Threads, id \in AtomicArgs : AddAtomicCall(t, id)
    \/ Alive /\ \E t \in Threads : Step(t)
    \/ Alive /\ \E id \in AtomicArgs : Remove(id)
    \/ Alive /\ Clear
    \/ Drop

DropSpec == Init /\ [][DropNext]_vars

\* What the exclusive borrow of remove rules out.  The set is filled by
\* exclusive add calls before any thread has started; then every thread makes
\* one call, add_atomic or the statement-by-statement remove, and the steps
\* of the calls interleave.
RaceArgs == {0, 1, W, Capacity - 1}
Fresh == \A t \in Threads : pc[t] = "idle"
RaceNext ==
    \/ Fresh /\ \E id \in RaceArgs : Add(id)
    \/ \E t \in Threads, id \in RaceArgs : pc[t] = "idle" /\ AddAtomicCall(t, id)
    \/ \E t \in Threads : Step(t)
    \/ \E t \in Threads, id \in RaceArgs : pc[t] = "idle" /\ RemoveCall(t, id)
    \/ \E t \in Threads : RemoveStep(t)

RaceSpec == Init /\ [][RaceNext]_vars

\* Shared operations only: the threads insert and read, and no exclusive
\* call is made.
SharedReads == {0, 1, Capacity - 1}
SharedNext ==
    \/ \E t \in Threads, id \in AtomicArgs : AddAtomicCall(t, id)
    \/ \E t \in Threads : Step(t)
    \/ \E id \in SharedReads : ContainsCall(id)
    \/ Layer3Call
    \/ Layer2Call(0)
    \/ Layer1Call(0)
    \/ Layer0Call(0)

SharedSpec == Init /\ [][SharedNext]_vars

\* Formatting a set that exclusive calls and add_atomic calls fill, one
\* identifier for each group block.
DebugArgs == {p * W * W : p \in 0..(NLayer1 - 1)}
DebugNext ==
    \/ \E id \in DebugArgs : Add(id)
    \/ \E t \in Threads : AddAtomicCall(t, 0)
    \/ \E t \in Threads : Step(t)
    \/ \E id \in DebugArgs : Remove(id)
    \/ Clear
    \/ DebugCall

DebugSpec == Init /\ [][DebugNext]_vars

\* ------------------------------------------------------------ vocabulary
AllIds == 0..(Capacity - 1)
Returned(t) == pc[t] = "done"
\* the bit of id is set in layer3, in its layer2 word, in its layer1 mask and
\* in its leaf word: a top-down traversal reaches id
Layer3Bit(id) == Bit(Layer3, row(id, SHIFT3)) = 1
Layer2Bit(id) == Bit(Layer2(offset(id, SHIFT3)), row(id, SHIFT2)) = 1
Layer1Bit(id) == Bit(Layer1(offset(id, SHIFT2)), row(id, SHIFT1)) = 1
Layer0Bit(id) == Bit(Layer0(offset(id, SHIFT1)), row(id, SHIFT0)) = 1
TopDown(id) == Layer3Bit(id) /\ Layer2Bit(id) /\ Layer1Bit(id) /\ Layer0Bit(id)

\* the summary invariant, level by level
Summary1 ==
    \A p1 \in 0..(NLayer1 - 1), k \in 0..(W - 1) :
        (Bit(Layer1(p1), k) = 1) <=> (Layer0(p1 * W + k) # 0)
Summary2 ==
    \A p2 \in 0..(NLayer2 - 1), k \in 0..(W - 1) :
        (Bit(Layer2(p2), k) = 1) <=> (Layer1(p2 * W + k) # 0)
Summary3 ==
    \A k \in 0..(W - 1) : (Bit(Layer3, k) = 1) <=> (Layer2(k) # 0)

\* ------------------------------------------------------------------ C1
\* C1: whenever no operation is in flight, every summary bit is set exactly
\* when the word below it is non-zero, at the three summary levels.
C1_SummaryInvariant == Quiet => (Summary1 /\ Summary2 /\ Summary3)

\* two concurrent add_atomic calls have returned on a set in which an earlier
\* remove left a published, partly emptied leaf array
C1_Witness ==
    /\ \A t \in Threads : Returned(t)
    /\ arg[1] # arg[2]
    /\ contains(W)
    /\ ~contains(W * W) /\ inner[offset(W * W, SHIFT2)] # NULL
    /\ Layer3 = AllOnes

\* ------------------------------------------------------------------ C2
\* C2: once every add_atomic call has returned, contains(id) is true for
\* exactly the identifiers that were inserted, and each of them has its
\* layer3, layer2, layer1 and leaf bits set: no insertion is lost, also when
\* the calls raced to allocate one leaf array.
C2_NoLostInsert ==
    Quiet =>
        /\ \A id \in AllIds : contains(id) <=> id \in members
        /\ \A id \in members : TopDown(id)

\* two calls on different identifiers of one group have returned, on a group
\* that had no leaf array; the second one lost the race to publish the array
C2_Witness ==
    /\ Returned(1) /\ Returned(2)
    /\ arg[1] = 0 /\ arg[2] = 1
    /\ lost[2] /\ ~lost[1]
    /\ members = {0, 1}

\* ------------------------------------------------------------------ C3
\* C3: with the calls run one at a time, add(id) and add_atomic(id) return
\* true exactly when contains(id) was true before the call, and contains(id)
\* is true after the call.
C3_AddReport ==
    (res.op \in {"add", "add_atomic"}) => (res.ret = res.was /\ contains(res.id))

\* a repeated add_atomic of the largest identifier reports true
C3_Witness ==
    /\ res.op = "add_atomic"
    /\ res.id = Capacity - 1
    /\ res.ret

\* ------------------------------------------------------------------ C4
\* C4: remove(id) returns true exactly when contains(id) was true before the
\* call and leaves contains(id) false; on a group whose leaf array was never
\* allocated it returns false.
C4_RemoveState ==
    (res.op = "remove") =>
        /\ res.ret = res.was
        /\ ~contains(res.id)
        /\ (inner[P1(res.id)] = NULL => ~res.ret)

\* C4: a second remove(id), right after a remove(id), returns false.
C4_RemoveTwice ==
    \A id \in Ids : (res.op = "remove" /\ res.id = id /\ Remove(id)) => ~res'.ret

C4_Remove == [](C4_RemoveState) /\ [][C4_RemoveTwice]_vars

\* remove(0) returned true and emptied the group block of 0, whose leaf
\* array stays allocated, in a set that keeps another group block under the
\* same layer2 word
C4_Witness ==
    /\ res.op = "remove" /\ res.id = 0 /\ res.ret
    /\ Layer1(0) = 0
    /\ contains(W * W)
    /\ inner[0] # NULL

\* ------------------------------------------------------------------ C5
\* C5: after clear(), layer3, every layer2 word, every layer1 mask and every
\* allocated leaf word are zero; contains(id) is false for every identifier
\* and no identifier is reached top-down.
C5_ClearEmpties ==
    (res.op = "clear") =>
        /\ Layer3 = 0
        /\ \A i \in 0..(NLayer2 - 1) : Layer2(i) = 0
        /\ \A i \in 0..(NLayer1 - 1) : Layer1(i) = 0
        /\ \A a \in DOMAIN heap : heap[a] = ZeroArray
        /\ \A id \in AllIds : ~contains(id) /\ ~TopDown(id)

\* clear() ran on a set with members under both layer2 words and in several
\* group blocks: the loop took an iteration for each
C5_Witness ==
    /\ res.op = "clear"
    /\ res.iters >= 5
    /\ \E p \in 0..(NLayer1 - 1) : inner[p] # NULL

\* ------------------------------------------------------------------ C6
\* C6: when add_atomic(id) has returned, the bits of id in its leaf word, its
\* layer1 mask, its layer2 word and layer3 are all set, whatever it returned.
C6_ReturnedIsReachable ==
    \A t \in Threads : Returned(t) => TopDown(arg[t])

\* a call found the leaf bit set by a call of the same identifier that is
\* still in flight, and has returned
C6_Witness ==
    /\ Returned(1) /\ set[1] /\ ~was[1]
    /\ arg[2] = arg[1]
    /\ pc[2] = "mask"

\* ------------------------------------------------------------------ C7
\* two calls of the same identifier, which neither found in the set when it
\* started, have both returned
SameIdRace(t, u) ==
    /\ t # u
    /\ Returned(t) /\ Returned(u)
    /\ arg[t] = arg[u]
    /\ ~was[t] /\ ~was[u]

OnlyCallers(t, u) == \A v \in Threads \ {t, u} : pc[v] = "idle"

C8_PanicStep ==
    \A t \in Threads :
        AddAtomicCall(t, BadId) => (pc'[t] = "panicked" /\ UNCHANGED shared)

\* ... and a call with such an identifier is never past the panic, while
\* add_atomic of the largest identifier within capacity returns and is then
\* observable via contains.
C8_State ==
    \A t \in Threads :
        /\ (arg[t] >= Capacity) => (pc[t] = "panicked")
        /\ (arg[t] = Capacity - 1 /\ pc[t] # "idle") => (pc[t] # "panicked")
        /\ (arg[t] = Capacity - 1 /\ Returned(t)) => contains(Capacity - 1)

C8_Capacity == [](C8_State) /\ [][C8_PanicStep]_vars

\* one call panicked on a non-empty set, another inserted the largest
\* identifier
C8_Witness ==
    /\ pc[1] = "panicked" /\ arg[1] = BadId
    /\ Returned(2) /\ arg[2] = Capacity - 1 /\ ~was[2]
    /\ contains(0)

\* ------------------------------------------------------------------ C9
\* an add_atomic(id) call is between its leaf fetch_or and its return
Propagating(id) == \E t \in Threads : arg[t] = id /\ pc[t] \in {"mask", "l2", "l3"}

\* C9: a state in which contains(id) is true while a summary bit on the path
\* of id is clear, so that id is not reached top-down, is one in which an
\* add_atomic(id) has written the leaf and not yet returned; such states
\* exist (C9_Witness).
C9_MissOnlyWhilePropagating ==
    \A id \in AllIds : (contains(id) /\ ~TopDown(id)) => Propagating(id)

\* the leaf bit and layer1 bit of id are set, layer3 already has the bit of
\* another identifier of the same layer2 word, and the layer2 bit of id is
\* still clear
C9_Witness ==
    \E id \in Ids :
        /\ contains(id) /\ Layer1Bit(id)
        /\ Layer3Bit(id) /\ ~Layer2Bit(id)
        /\ Propagating(id)

\* ------------------------------------------------------------------ C10
\* how far a call has got
Rank(p) ==
    CASE p = "cas" -> 1
      [] p = "free" -> 2
      [] p = "leaf" -> 3
      [] p = "mask" -> 4
      [] p = "l2" -> 5
      [] p = "l3" -> 6
      [] OTHER -> 7

\* C10: a running call never goes back: each of its steps moves it forward,
\* so it makes at most one compare_exchange and never loops ...
C10_Forward ==
    \A t \in Threads :
        (InFlight(t) /\ pc'[t] # pc[t]) => (Rank(pc'[t]) > Rank(pc[t]))

\* ... a call whose own thread keeps taking steps returns, whatever the
\* other threads do, and when every thread keeps taking steps, a leaf bit
\* that is set is followed by its layer1, layer2 and layer3 bits.
C10_Progress ==
    /\ [][C10_Forward]_vars
    /\ InFlight(1) ~> Returned(1)
    /\ (\A t \in Threads : WF_vars(Step(t))) =>
           (\A id \in Ids : Layer0Bit(id) ~> TopDown(id))

\* thread 1 returned from a call whose compare_exchange failed, while the
\* call that won the publish has not moved since
C10_Witness ==
    /\ Returned(1) /\ lost[1]
    /\ pc[2] = "leaf" /\ P1(arg[2]) = P1(arg[1])
    /\ TopDown(arg[1])

\* ---------------------------------------------------------------- C11
\* C11: in every state with no add_atomic call between call and return, and
\* for every identifier within capacity, add(id) and add_atomic(id) return
\* the same value and leave the same layer3, layer2 words, layer1 masks,
\* published arrays and leaf words, although add writes layer2 and layer3
\* only when the leaf bit was clear.
C11_AddRefinesAddAtomic ==
    Quiet => \A id \in AllIds : AddPost(id) = AddAtomicPost(id)

\* add has just returned true (it skipped the layer2 and layer3 writes) on
\* an identifier that racing add_atomic calls had inserted
C11_Witness ==
    /\ res.op = "add"
    /\ res.ret
    /\ \E p \in 0..(NLayer1 - 1) : inner[p] # NULL /\ inner[p][2] # Main

\* ---------------------------------------------------------------- C12
\* the leaf words, by the index layer0 takes
LeafWords == 0..(NLayer1 * W - 1)

\* what remove(id) may change: in the leaf words only the bit of id; in a
\* summary word only the bit on the path of id, and that only from 1 to 0
\* and only when the word below it is zero afterwards
RemoveFrame(id) ==
    /\ \A j \in AllIds \ {id} : contains(j)' = contains(j)
    /\ \A i \in LeafWords :
          Layer0(i)' = IF i = offset(id, SHIFT1)
                       THEN BitAnd(Layer0(i), BitNot(mask(id, SHIFT0)))
                       ELSE Layer0(i)
    /\ \A p \in 0..(NLayer1 - 1), k \in 0..(W - 1) :
          Bit(Layer1(p)', k) # Bit(Layer1(p), k) =>
              /\ p = P1(id) /\ k = row(id, SHIFT1)
              /\ Bit(Layer1(p)', k) = 0
              /\ Layer0(offset(id, SHIFT1))' = 0
    /\ \A p \in 0..(NLayer2 - 1), k \in 0..(W - 1) :
          Bit(Layer2(p)', k) # Bit(Layer2(p), k) =>
              /\ p = P2(id) /\ k = row(id, SHIFT2)
              /\ Bit(Layer2(p)', k) = 0
              /\ Layer1(P1(id))' = 0
    /\ \A k \in 0..(W - 1) :
          Bit(Layer3', k) # Bit(Layer3, k) =>
              /\ k = row(id, SHIFT3)
              /\ Bit(Layer3', k) = 0
              /\ Layer2(P2(id))' = 0

\* C12: remove(id) changes no leaf bit other than the bit of id and leaves
\* contains(j) as it was for every other j; it clears the layer1 bit of id
\* only when the leaf word of id has become zero, the layer2 bit only when
\* the layer1 mask of the group has become zero, the layer3 bit only when
\* that layer2 word has become zero, and no other summary bit changes.
C12_RemoveFrameEffect ==
    [][\A id \in Ids : Remove(id) => RemoveFrame(id)]_vars

\* remove(0) returned true and emptied the leaf word of 0 while the other
\* leaf word of the group keeps a bit: the layer1 bit of 0 is cleared and the
\* layer2 and layer3 bits above it stay
C12_Witness ==
    /\ res.op = "remove" /\ res.id = 0 /\ res.ret
    /\ contains(W)
    /\ ~Layer1Bit(0)
    /\ Layer2Bit(0) /\ Layer3Bit(0)

\* ---------------------------------------------------------------- C13
\* a step of one of the read calls: the call that res' names
ReadStep ==
    \/ res'.op \in {"contains", "contains_panic"} /\ ContainsCall(res'.id)
    \/ res'.op = "layer3" /\ Layer3Call
    \/ res'.op = "layer2" /\ Layer2Call(res'.id)
    \/ res'.op = "layer1" /\ Layer1Call(res'.id)
    \/ res'.op = "layer0" /\ Layer0Call(res'.id)

\* a read call leaves every layer, every cell and every array as it was
C13_ReadsChangeNothing ==
    ReadStep => /\ shared' = shared
                /\ DOMAIN heap' = DOMAIN heap
                /\ locals' = locals

\* on a group whose leaf array was never published, contains returns false
\* and layer0 returns zero
C13_Unpublished ==
    /\ (res'.op = "contains" /\ ContainsCall(res'.id) /\ inner[P1(res'.id)] = NULL)
          => ~res'.ret
    /\ (res'.op = "layer0" /\ Layer0Call(res'.id) /\ inner[res'.id \div W] = NULL)
          => res'.word = 0

\* contains(id) is the bit of id in the word layer0 returns for the leaf
\* word of id
C13_ContainsIsLayer0Bit ==
    \A id \in AllIds : contains(id) <=> Bit(Layer0(id \div W), id % W) = 1

\* C13: contains and the accessors layer3, layer2, layer1, layer0 leave the
\* whole state unchanged and neither allocate nor publish a leaf array; on a
\* group whose leaf array was never published contains returns false and
\* layer0 returns zero; in every state contains(id) equals the bit of id in
\* the word layer0 returns for the leaf word of id.
C13_Reads ==
    /\ [](C13_ContainsIsLayer0Bit)
    /\ [][C13_ReadsChangeNothing /\ C13_Unpublished]_vars

\* layer0 has returned a word with the bit of identifier W set while an
\* add_atomic call is in flight and the other group blocks have never had a
\* leaf array published
C13_Witness ==
    /\ res.op = "layer0" /\ res.id = 1 /\ res.word = 1
    /\ contains(W)
    /\ \E t \in Threads : InFlight(t)
    /\ inner[1] = NULL

\* ---------------------------------------------------------------- C14
\* the cell of every group block keeps a published pointer: it changes only
\* from null, and then to an array that is allocated
C14_WriteOnce ==
    \A p \in 0..(NLayer1 - 1) :
        /\ inner[p] # NULL => inner'[p] = inner[p]
        /\ inner'[p] # NULL => inner'[p] \in DOMAIN heap'

\* remove and clear neither allocate nor free nor publish; clear leaves every
\* array either as it was or zeroed
C14_RemoveClearKeepArrays ==
    /\ (\E id \in Args : Remove(id)) =>
           (inner' = inner /\ DOMAIN heap' = DOMAIN heap)
    /\ Clear =>
           /\ inner' = inner /\ DOMAIN heap' = DOMAIN heap
           /\ \A a \in DOMAIN heap : heap'[a] \in {heap[a], ZeroArray}

\* a get_or_init call that has got its array (before its caller has used
\* it) holds the array the cell publishes
C14_GetOrInitReturnsPublished ==
    \A t \in Threads :
        pc[t] \in {"free", "leaf"} =>
            /\ ptr[t] # NULL
            /\ ptr[t] = inner[P1(arg[t])]

\* C14: the published pointer of each write-once cell changes at most once,
\* from null to one array, and never again under add, add_atomic, remove,
\* clear and the read calls; remove and clear neither allocate nor free a
\* leaf array and clear only zeroes it; every get_or_init call on a cell,
\* racing or not, returns the array the cell publishes.
C14_PublishedOnce ==
    /\ [](C14_GetOrInitReturnsPublished)
    /\ [][C14_WriteOnce /\ C14_RemoveClearKeepArrays]_vars

\* a call that lost the race and freed its own array holds the winner's
\* array, the only one allocated, and a read call has returned meanwhile
C14_Witness ==
    /\ \E t \in Threads : lost[t] /\ pc[t] = "leaf" /\ ptr[t] = inner[P1(arg[t])]
    /\ Cardinality(DOMAIN heap) = 1
    /\ res.op \in {"contains", "layer0"}

\* ---------------------------------------------------------------- C15
\* the cells that publish an array
Published == {p \in 0..(NLayer1 - 1) : inner[p] # NULL}

\* an array is allocated only by the step that starts a call, for that call,
\* and one array at most
C15_OneAllocationPerCall ==
    /\ Cardinality(DOMAIN heap' \ DOMAIN heap) <= 1
    /\ \A a \in DOMAIN heap' \ DOMAIN heap :
          \E t \in Threads :
              /\ ~InFlight(t) /\ pc'[t] = "cas"
              /\ new_ptr'[t] = a /\ a = <<P1(arg'[t]), t>>

\* an array is freed only by the drop of the set or by the call that
\* allocated it and failed to publish it, before that call goes on
C15_FreedByLoser ==
    \A a \in DOMAIN heap \ DOMAIN heap' :
        \/ res'.op = "drop"
        \/ \E t \in Threads :
              /\ pc[t] = "free" /\ pc'[t] = "leaf"
              /\ a = new_ptr[t] /\ a[2] = t
              /\ inner[a[1]] # a

\* an allocated array is the published one of its cell, or the one a call
\* still holds between its allocation and the end of get_or_init: a call
\* that has left get_or_init has published its array or freed it
C15_LoserFreedBeforeReturn ==
    \A a \in DOMAIN heap :
        \/ inner[a[1]] = a
        \/ /\ a[2] \in Threads
           /\ pc[a[2]] \in {"cas", "free"}
           /\ new_ptr[a[2]] = a

\* the array a call got from get_or_init, and writes to, is allocated
C15_NoUseAfterFree ==
    \A t \in Threads : ptr[t] # NULL => (Alive => ptr[t] \in DOMAIN heap)

\* while the set lives every published array is allocated; its drop frees
\* each published array once, none twice, and leaves nothing allocated
C15_DropFreesAll ==
    /\ Alive => \A p \in Published : inner[p] \in DOMAIN heap
    /\ ~Alive => /\ heap = EmptyHeap
                 /\ res.bad = {}
                 /\ res.iters = Cardinality(Published)

\* C15: when threads race in get_or_init on an unpublished cell, each call
\* allocates at most one array, exactly one allocation is published, every
\* losing allocation is freed by the thread that made it before its call
\* returns, and no freed array is returned or written to; the drop of the set
\* then frees the published array once: no array leaks, none is freed twice.
C15_RaceAndDrop ==
    /\ [](C15_LoserFreedBeforeReturn /\ C15_NoUseAfterFree /\ C15_DropFreesAll)
    /\ [][C15_OneAllocationPerCall /\ C15_FreedByLoser]_vars

\* the set was dropped after two calls had raced on one cell: one of them
\* lost and freed its array, the drop freed the published one
C15_Witness ==
    /\ res.op = "drop" /\ res.iters = 1
    /\ \E t \in Threads : lost[t] /\ Returned(t)
    /\ heap = EmptyHeap

\* ---------------------------------------------------------------- C16
\* the number of set bits of a word
PopCount(x) == Cardinality({k \in 0..(W - 1) : Bit(x, k) = 1})
\* the layer2 words under a set layer3 bit
SetWords == {k \in 0..(NLayer2 - 1) : Bit(layer3, k) = 1}
\* the group blocks whose layer2 bit is set under a set layer3 bit
SetBlocks ==
    {p \in 0..(NLayer1 - 1) : (p \div W) \in SetWords /\ Bit(layer2[p \div W], p % W) = 1}
\* the elements of a sequence
Range(q) == {q[n] : n \in 1..Len(q)}

RECURSIVE SumPop(_)
SumPop(ks) ==
    IF ks = {} THEN 0
    ELSE LET k == CHOOSE x \in ks : TRUE
         IN PopCount(layer2[k]) + SumPop(ks \ {k})

\* what the loop of clear does from this state: its iterations, the group
\* blocks it clears and the layer2 words it swaps
C16_LoopCounts ==
    Quiet =>
        LET r == ClearResult
        IN /\ r.iters = PopCount(layer3) + SumPop(SetWords) + 1
           /\ Range(r.cleared) = SetBlocks
           /\ Len(r.cleared) = Cardinality(SetBlocks)
           /\ Range(r.swapped) = SetWords
           /\ Len(r.swapped) = Cardinality(SetWords)

\* a clear() call returns after that many iterations and leaves every other
\* group block and every other layer2 word as it was
C16_ClearStep ==
    Clear =>
        /\ res'.iters = PopCount(layer3) + SumPop(SetWords) + 1
        /\ \A p \in (0..(NLayer1 - 1)) \ SetBlocks :
              /\ l1mask'[p] = l1mask[p]
              /\ inner[p] # NULL => heap'[inner[p]] = heap[inner[p]]
        /\ \A k \in (0..(NLayer2 - 1)) \ SetWords : layer2'[k] = layer2[k]

\* C16: clear() terminates on every state after as many loop iterations as
\* layer3 has set bits, plus the set bits of the layer2 words under them,
\* plus one; it clears exactly the group blocks whose layer2 bit was set
\* under a set layer3 bit, each once, and touches no other group block and
\* no layer2 word whose layer3 bit was clear.
C16_ClearTerminates ==
    /\ [](C16_LoopCounts)
    /\ [][C16_ClearStep]_vars

\* clear() has returned after six iterations: two layer2 words and three
\* group blocks were set, one group block was not
C16_Witness ==
    /\ res.op = "clear" /\ res.iters = 6
    /\ inner[0] # NULL /\ inner[1] # NULL /\ inner[3] # NULL /\ inner[2] = NULL

\* ---------------------------------------------------------------- C17
\* every thread has made its call and the call has returned
AllReturned == \A t \in Threads : pc[t] \in {"done", "r_done"}
\* id is contained at the leaf while a summary bit on its path is clear
Unreachable(id) ==
    contains(id) /\ ~(Layer1Bit(id) /\ Layer2Bit(id) /\ Layer3Bit(id))

\* C17: with the statements of remove interleaved with the steps of
\* add_atomic there are runs after which every call has returned and an
\* identifier is contained at the leaf while a summary bit on its path is
\* clear (C17_Witness); that happens only when a remove ran next to an
\* add_atomic of that identifier under the same layer3 bit, never with calls
\* of one kind or on different subtrees.
C17_OnlyRemoveNextToAdd ==
    AllReturned =>
        \A id \in AllIds :
            Unreachable(id) =>
                \E t, u \in Threads :
                    /\ pc[t] = "r_done"
                    /\ pc[u] = "done" /\ arg[u] = id
                    /\ row(arg[t], SHIFT3) = row(id, SHIFT3)

\* remove(0) and add_atomic(1) have both returned; 1 is contained at the
\* leaf and its layer2 and layer3 bits are clear
C17_Witness ==
    /\ AllReturned
    /\ \E t, u \in Threads :
          /\ pc[t] = "r_done" /\ arg[t] = 0 /\ set[t]
          /\ pc[u] = "done" /\ arg[u] = 1
    /\ contains(1)
    /\ ~Layer2Bit(1) /\ ~Layer3Bit(1)

Includes(b, a) == BitAnd(a, b) = a

\* from one state to the next every leaf word and every summary word keeps
\* the bits it has
C19_WordsGrow ==
    /\ \A i \in LeafWords : Includes(Layer0(i)', Layer0(i))
    /\ \A p \in 0..(NLayer1 - 1) : Includes(Layer1(p)', Layer1(p))
    /\ \A p \in 0..(NLayer2 - 1) : Includes(Layer2(p)', Layer2(p))
    /\ Includes(Layer3', Layer3)

\* contains(id) has just returned true
SawContained(id) == res.op = "contains" /\ res.id = id /\ res.ret

\* C19: while only add_atomic, contains and the layer accessors run, the set
\* only grows: every leaf word and every summary word only gains bits from
\* one state to the next, and once contains(id) has returned true it is true
\* ever after.
C19_OnlyGrows ==
    /\ [][C19_WordsGrow]_vars
    /\ \A id \in SharedReads : [](SawContained(id) => [](contains(id)))

\* contains(0) has returned true on a set that holds identifiers of two
\* layer2 words, with a call in flight that has written its leaf bit only
C19_Witness ==
    /\ SawContained(0)
    /\ contains(Capacity - 1)
    /\ \E t \in Threads : pc[t] = "mask" /\ ~Layer1Bit(arg[t])

\* ---------------------------------------------------------------- C20
\* C20: Debug-formatting an AtomicBitSet completes without panicking and
\* without allocating or changing any state, in every reachable state, a
\* fresh set and a set with a group whose leaf array was never published
\* included.
C20_DebugCompletes ==
    [][(res'.op \in {"debug", "debug_panic"} /\ DebugCall) =>
          /\ res'.op = "debug"
          /\ shared' = shared
          /\ DOMAIN heap' = DOMAIN heap]_vars
====
